---- MODULE Spec2Model ----
(***************************************************************************)
(* Sparta: the API Gateway custom-resource runtime                         *)
(* (resources/provision/apigateway.js).  One invocation of exports.handler *)
(* is modelled as an event loop: every action is one turn of the loop, the *)
(* callback of one remote call together with all the synchronous code it   *)
(* runs up to the next remote call.                                        *)
(*                                                                         *)
(* Values.  Identifiers are naturals and 0 stands for the falsy values     *)
(* (undefined, null, "").  Errors are records; NoError is null.            *)
(***************************************************************************)
EXTENDS Integers, Sequences, FiniteSets, TLC

\* ------------------------------------------------------------------ bounds
\* non-root nodes of a desired resource tree
MaxNodes == 2
\* HTTP methods of a whole desired resource tree
MaxMethods == 2
\* REST API containers of the request's name the remote side holds at first
MaxApis == 1

\* ------------------------------------------------------------------ values
Arns == {"arnA", "arnB"}

NoError == [api |-> "none", node |-> -1, msg |-> <<>>]

\* The text of an error, as a sequence of tokens: "RCE" is the word
\* ResourceConflictException, "AE" the words "already exists", "NL" a line
\* break and "x" any other text.
ErrMsgs == { <<"x">>, <<"RCE", "x", "AE">>, <<"RCE", "NL", "AE">> }
PlainMsg == <<"x">>

\* The error of a failed call.  An error of the tree walk is identified by the
\* node whose processing it ended (a node ends with one error at most) and by
\* its text; an error outside the walk (node -1) by the call and its text.
Err(api, node, msg) ==
    [api |-> IF node >= 0 THEN "walk" ELSE api, node |-> node, msg |-> msg]

\* A looser pattern, /already exists/ over the whole text.
RE_Anywhere(msg) ==
    \E i \in 1..Len(msg) : msg[i] = "AE"

\* e.toString() matched against /ResourceConflictException.*already exists/
\* ("." matches no line break).
RE_STATEMENT_ALREADY_EXISTS(msg) ==
    \E i \in 1..Len(msg) : \E j \in (i+1)..Len(msg) :
        /\ msg[i] = "RCE"
        /\ msg[j] = "AE"
        /\ \A k \in (i+1)..(j-1) : msg[k] # "NL"

\* statementID: 'Sparta' followed by the SHA-1 of the ARN, a function of the
\* ARN alone.
statementID(lambdaArn) == <<"Sparta", lambdaArn>>

\* A statement of a function's policy, as addPermission leaves it.
Grant(arn, sid) == [FunctionName |-> arn, StatementId |-> sid]

\* ------------------------------------------------------------------ inputs
\* A resource tree: par[i] is the parent of node i (node 0 is the root, the
\* children of a node are visited in the order of their keys), res[n] the
\* APIResources of node n, each with its LambdaArn and its number of Methods.
ParentSeqs ==
    UNION { { p \in [1..k -> 0..MaxNodes] : \A i \in 1..k : p[i] < i } : k \in 0..MaxNodes }

Entries == [LambdaArn : Arns, Methods : 1..MaxMethods]

RECURSIVE SumMethods(_)
SumMethods(s) == IF s = <<>> THEN 0 ELSE Head(s).Methods + SumMethods(Tail(s))

NodeCfgs ==
    { s \in {<<>>} \cup { <<e>> : e \in Entries }
                \cup { <<e1, e2>> : e1 \in Entries, e2 \in Entries } :
        SumMethods(s) <= MaxMethods }

RECURSIVE TreeMethods(_, _)
TreeMethods(res, n) ==
    IF n < 0 THEN 0 ELSE SumMethods(res[n]) + TreeMethods(res, n - 1)

\* The ARNs of the entries of nodes 0..n, in node order.
RECURSIVE ArnsUpTo(_, _)
ArnsUpTo(res, n) ==
    IF n < 0 THEN <<>>
    ELSE ArnsUpTo(res, n - 1) \o [i \in 1..Len(res[n]) |-> res[n][i].LambdaArn]

\* The ARNs are interchangeable: the first one a tree names is "arnA".
Canonical(res, n) ==
    LET a == ArnsUpTo(res, n) IN a = <<>> \/ a[1] = "arnA"

Trees ==
    UNION { { [par |-> p, res |-> r] : r \in { q \in [0..Len(p) -> NodeCfgs] :
                                           /\ TreeMethods(q, Len(p)) <= MaxMethods
                                           /\ Canonical(q, Len(p)) } }
            : p \in ParentSeqs }

NoTree == [par |-> <<>>, res |-> [n \in {} |-> <<>>]]

Nodes(tree) == DOMAIN tree.res

\* Object.keys(rootObject.Children), in key order
Children(tree, n) ==
    LET RECURSIVE From(_)
        From(i) == IF i > Len(tree.par) THEN <<>>
                   ELSE IF tree.par[i] = n THEN <<i>> \o From(i + 1)
                   ELSE From(i + 1)
    IN From(1)

\* accumulatedStackLambdas: the LambdaArn of every APIResources entry of the
\* node, then those of its children, depth first.
RECURSIVE ArnsOf(_)
ArnsOf(entries) ==
    IF entries = <<>> THEN <<>> ELSE <<Head(entries).LambdaArn>> \o ArnsOf(Tail(entries))

RECURSIVE accumulatedStackLambdas(_, _)
accumulatedStackLambdas(tree, n) ==
    LET RECURSIVE Over(_)
        Over(kids) == IF kids = <<>> THEN <<>>
                      ELSE accumulatedStackLambdas(tree, Head(kids)) \o Over(Tail(kids))
    IN IF n \notin Nodes(tree) THEN <<>>
       ELSE ArnsOf(tree.res[n]) \o Over(Children(tree, n))

\* The statements a Create of the tree leaves on the remote side when all its
\* calls succeed: one for each target function of the tree.
GrantsOf(tree) ==
    LET arns == accumulatedStackLambdas(tree, 0)
    IN { Grant(arns[i], statementID(arns[i])) : i \in 1..Len(arns) }

\* Stage of the desired spec; "" is an absent field.
NoStage == [Name |-> "", Description |-> "", Variables |-> ""]
Stages == { NoStage,
            [Name |-> "prod", Description |-> "live", Variables |-> "v1"],
            [Name |-> "beta", Description |-> "", Variables |-> ""] }

\* a || b on strings
OrElse(a, b) == IF a = "" THEN b ELSE a

\* The requests of the control plane.  OldResourceProperties is NoTree when
\* the request carries none.
Events ==
    { [RequestType |-> "Create", ResourceProperties |-> TRUE, tree |-> t,
       Stage |-> s, old |-> NoTree] : t \in Trees, s \in Stages }
    \cup
    { [RequestType |-> "Update", ResourceProperties |-> TRUE, tree |-> t,
       Stage |-> s, old |-> t] : t \in Trees, s \in Stages }
    \cup
    UNION { { [RequestType |-> "Delete", ResourceProperties |-> TRUE, tree |-> t,
               Stage |-> NoStage, old |-> o] : o \in {NoTree, t} } : t \in Trees }
    \cup
    { [RequestType |-> r, ResourceProperties |-> FALSE, tree |-> NoTree,
       Stage |-> NoStage, old |-> NoTree] : r \in {"Create", "Update", "Delete"} }

\* ------------------------------------------------------------------- state
VARIABLES
    event,          \* the request being handled
    pc,             \* "init", "running", "done": position of exports.handler
    taskState,      \* async.auto(tasks): state of each top-level task
    results,        \* async.auto(tasks): result of each completed task
    final,          \* the final callback of async.auto(tasks), onComplete
    data,           \* the response data object of the handler
    sent,           \* the calls of response.send, in order
    inflight,       \* the remote calls issued and not yet called back
    delArns,        \* ensureLambdaPermissionsDeleted: ARNs still to revoke
    tasksQ,         \* workerQueue: the queued tasks
    workers,        \* workerQueue: the number of running workers
    jobs,           \* the running invocations of processResourceEntry; `rejected`
                    \* is the error the pending grant's addPermission was
                    \* called back with (history)
    workerError,    \* the walk's error variable
    resourceIndex,  \* path -> resource id, from getResources
    cache,          \* lambdaRolePolicyCache
    remote,         \* the remote side: API containers and granted permissions
    firstErr,       \* history: the first error a node of the walk ended with
    resolved,       \* history: node -> the id its createResource step gave
    deployCalls,    \* history: the number of createDeployment calls issued
    revokeLog,      \* history of ensureAPIDeletedTask: how the lookup/deletion
                    \* of the container ended, the ARNs a removePermission was
                    \* attempted for, the number of attempts that failed
    walkLog         \* history: node -> how its processing ended and the number
                    \* of its method pipelines that succeeded

\* The state of the assembly of the resource document (sparta.go).
VARIABLES
    lambdaAWSInfos,       \* the function definitions given to the assembly
    next,                 \* the definition and the step the assembly is at
    resources,            \* the resource document: logical id -> resource
    CommonIAMStatements,  \* the shared per-service statement templates
    policies,             \* history: the rolePolicy calls, each with the
                          \* policy as it read when the call returned
    exports,              \* history: the export calls with the logical ids
                          \* they used, the DependsOn of the function and
                          \* whether the call returned an error
    randSource            \* math/rand: the seed and the number of values drawn

goVars == << lambdaAWSInfos, next, resources, CommonIAMStatements, policies, exports,
             randSource >>

vars == << goVars, event, pc, taskState, results, final, data, sent, inflight, delArns,
           tasksQ, workers, jobs, workerError, resourceIndex, cache, remote,
           firstErr, resolved, deployCalls, revokeLog, walkLog >>

walkVars == << tasksQ, workers, jobs, workerError, resourceIndex, cache,
               firstErr, resolved, walkLog >>

Tasks == {"ensureDeleted", "ensureCreated", "ensureResources", "ensureDeployment"}

\* Tasks declared without predecessors.
AutoDepsNone(t) == {}

\* The declared predecessors of each task of exports.handler.
AutoDeps(t) ==
    CASE t = "ensureDeleted"    -> {}
      [] t = "ensureCreated"    -> {"ensureDeleted"}
      [] t = "ensureResources"  -> {"ensureCreated"}
      [] t = "ensureDeployment" -> {"ensureResources"}

EmptyDoc == << >>

\* No assembly runs in the process of the custom resource.
AssemblyIdle ==
    /\ lambdaAWSInfos = <<>>
    /\ next = [i |-> 0, step |-> "idle"]
    /\ resources = << >>
    /\ CommonIAMStatements = << >>
    /\ policies = <<>>
    /\ exports = <<>>
    /\ randSource = [seed |-> 0, calls |-> 0]

NoRevokes == [lookup |-> "none", attempted |-> <<>>, failed |-> 0]
Unresolved == 0 - 1

Init ==
    /\ event \in Events
    /\ pc = "init"
    /\ taskState = [t \in Tasks |-> "absent"]
    /\ results = [t \in Tasks |-> 0]
    /\ final = [state |-> "idle", err |-> NoError]
    /\ data = [Error |-> NoError, Result |-> FALSE, ensureAPICreated |-> NoError]
    /\ sent = <<>>
    /\ inflight = {}
    /\ delArns = <<>>
    /\ tasksQ = <<>>
    /\ workers = 0
    /\ jobs = {}
    /\ workerError = NoError
    /\ resourceIndex = [p \in {} |-> 0]
    /\ cache = [a \in Arns |-> EmptyDoc]
    /\ remote \in [apis : 0..MaxApis, grants : {{}, GrantsOf(event.old)}]
    /\ firstErr = NoError
    /\ resolved = [n \in Nodes(event.tree) |-> Unresolved]
    /\ deployCalls = 0
    /\ revokeLog = NoRevokes
    /\ AssemblyIdle
    /\ walkLog = [n \in Nodes(event.tree) |-> [end |-> "none", methods |-> 0]]

\* response.send(event, context, status, data): the call may throw
\* (delivered = FALSE) and is then only logged.
Response(status, d, delivered) ==
    [Status |-> status, Error |-> d.Error, delivered |-> delivered]

\* A handler that adds every task for every request.
TaskAddedAlways(t, requestType) == TRUE

\* exports.handler: tasks.ensureDeleted is added for every request, the three
\* other tasks if (event.RequestType !== 'Delete').
TaskAdded(t, requestType) == t = "ensureDeleted" \/ requestType # "Delete"

\* exports.handler without its else: the response of the branch without
\* ResourceProperties is sent on both branches.
HandlerWithoutElse ==
    /\ pc = "init"
    /\ IF event.ResourceProperties
       THEN /\ taskState' = [t \in Tasks |->
                   IF TaskAdded(t, event.RequestType) THEN "pending" ELSE "absent"]
            /\ final' = [state |-> "armed", err |-> NoError]
            /\ pc' = "running"
       ELSE /\ pc' = "done"
            /\ UNCHANGED << taskState, final >>
    /\ \E delivered \in BOOLEAN :
          sent' = Append(sent, Response("SUCCESS", data, delivered))
    /\ UNCHANGED << goVars, event, results, data, inflight, delArns, revokeLog, remote, deployCalls >>
    /\ UNCHANGED walkVars

\* exports.handler: the synchronous part.
Handler ==
    /\ pc = "init"
    /\ IF event.ResourceProperties
       THEN /\ taskState' = [t \in Tasks |->
                   IF TaskAdded(t, event.RequestType) THEN "pending" ELSE "absent"]
            /\ final' = [state |-> "armed", err |-> NoError]
            /\ pc' = "running"
            /\ sent' = sent
       ELSE /\ \E delivered \in BOOLEAN :
                   sent' = Append(sent, Response("SUCCESS", data, delivered))
            /\ pc' = "done"
            /\ UNCHANGED << taskState, final >>
    /\ UNCHANGED << goVars, event, results, data, inflight, delArns, revokeLog, remote, deployCalls >>
    /\ UNCHANGED walkVars

\* async.auto: a task runs once every declared predecessor has completed.
Ready(t) ==
    /\ pc = "running"
    /\ taskState[t] = "pending"
    /\ \A d \in AutoDeps(t) : taskState[d] = "done"

\* async.auto: the callback handed to task t is called with (e, r).  An error
\* goes to the final callback at once; otherwise the final callback is called
\* when no task remains.  The final callback is called once.
AllDone(ts) == \A t \in Tasks : ts[t] \in {"absent", "done"}

TaskStateAfter(t, e) ==
    [taskState EXCEPT ![t] = IF e = NoError THEN "done" ELSE "failed"]

FinalAfter(t, e) ==
    IF final.state # "armed" THEN final
    ELSE IF e # NoError THEN [state |-> "pending", err |-> e]
    ELSE IF AllDone(TaskStateAfter(t, e)) THEN [state |-> "pending", err |-> NoError]
    ELSE final

CompleteTask(t, e, r) ==
    /\ taskState' = TaskStateAfter(t, e)
    /\ results' = IF e = NoError THEN [results EXCEPT ![t] = r] ELSE results
    /\ final' = FinalAfter(t, e)

\* onComplete: the response of the invocation.
OnComplete ==
    /\ final.state = "pending"
    /\ final' = [final EXCEPT !.state = "called"]
    /\ data' = [data EXCEPT !.Error = final.err, !.Result = (final.err = NoError)]
    /\ \E delivered \in BOOLEAN :
          sent' = Append(sent, Response(IF final.err # NoError THEN "FAILED" ELSE "SUCCESS",
                                        data', delivered))
    /\ pc' = "done"
    /\ UNCHANGED << goVars, event, taskState, results, inflight, delArns, revokeLog, remote, deployCalls >>
    /\ UNCHANGED walkVars

\* ------------------------------------------------- ensureAPIDeletedTask
Calls(api) == { c \in inflight : c.api = api }

\* A revoke that names the statement by a fixed text.
RemovePermissionCallPlainId(arn) ==
    [api |-> "removePermission", task |-> "ensureDeleted",
     FunctionName |-> arn, StatementId |-> <<"Sparta">>]

RemovePermissionCall(arn) ==
    [api |-> "removePermission", task |-> "ensureDeleted",
     FunctionName |-> arn, StatementId |-> statementID(arn)]

\* A terminus that hands the waterfall's error on.
DeleteTerminusPass(e) == e

\* terminus of ensureAPIDeletedTask: callback(null, true) whatever the
\* waterfall ended with.
DeleteTerminusError(e) == NoError

StartEnsureDeleted ==
    /\ Ready("ensureDeleted")
    /\ taskState' = [taskState EXCEPT !["ensureDeleted"] = "running"]
    /\ inflight' = inflight \cup {[api |-> "getRestApis", task |-> "ensureDeleted"]}
    /\ UNCHANGED << goVars, event, pc, results, final, data, sent, delArns, revokeLog, remote, deployCalls >>
    /\ UNCHANGED walkVars

\* onAPIDeleted(null, ...): ensureLambdaPermissionsDeleted over the lambdas of
\* the old properties, when `rest` are the calls still in flight.
BeginRevokes(rest) ==
    LET lambdaArns == accumulatedStackLambdas(event.old, 0)
    IN IF lambdaArns = <<>>
       THEN /\ CompleteTask("ensureDeleted", DeleteTerminusError(NoError), 1)
            /\ inflight' = rest
            /\ delArns' = <<>>
            /\ revokeLog' = [revokeLog EXCEPT !.lookup = "ok"]
       ELSE /\ delArns' = lambdaArns
            /\ inflight' = rest \cup {RemovePermissionCall(Head(lambdaArns))}
            /\ revokeLog' = [revokeLog EXCEPT !.lookup = "ok",
                                              !.attempted = <<Head(lambdaArns)>>]
            /\ UNCHANGED << taskState, results, final >>

\* A lookup that finds no container.
MatchingAPINone(apis) == FALSE

\* matchingAPI: the first of restAPIs.items with the name of the request.
MatchingAPI(apis) == apis > 0

OnGetRestApis ==
    \E c \in Calls("getRestApis") : \E ok \in BOOLEAN :
        /\ IF ~ok
           THEN /\ CompleteTask("ensureDeleted",
                                DeleteTerminusError(Err("getRestApis", -1, PlainMsg)), 1)
                /\ inflight' = inflight \ {c}
                /\ delArns' = delArns
                /\ revokeLog' = [revokeLog EXCEPT !.lookup = "failed"]
           ELSE IF MatchingAPI(remote.apis)
           THEN /\ inflight' = (inflight \ {c}) \cup
                        {[api |-> "deleteRestApi", task |-> "ensureDeleted", restApiId |-> 1]}
                /\ UNCHANGED << taskState, results, final, delArns, revokeLog >>
           ELSE BeginRevokes(inflight \ {c})
        /\ UNCHANGED << goVars, event, pc, data, sent, remote, deployCalls >>
        /\ UNCHANGED walkVars

OnDeleteRestApi ==
    \E c \in Calls("deleteRestApi") : \E ok \in BOOLEAN :
        /\ IF ok
           THEN /\ remote' = [remote EXCEPT !.apis = @ - 1]
                /\ BeginRevokes(inflight \ {c})
           ELSE /\ remote' = remote
                /\ CompleteTask("ensureDeleted",
                                DeleteTerminusError(Err("deleteRestApi", -1, PlainMsg)), 1)
                /\ inflight' = inflight \ {c}
                /\ delArns' = delArns
                /\ revokeLog' = [revokeLog EXCEPT !.lookup = "failed"]
        /\ UNCHANGED << goVars, event, pc, data, sent, deployCalls >>
        /\ UNCHANGED walkVars

\* An onCleanup that hands the error of the revoke to the iteration.
OnCleanupPass(e) == e

\* onCleanup: iterCB(null, null) whatever the revoke ended with.
OnCleanupError(e) == NoError

\* cleanupIterator/onCleanup, also when the call throws; async.eachSeries goes
\* on with the next ARN unless the iterator reported an error.
OnRemovePermission ==
    \E c \in Calls("removePermission") : \E outcome \in {"ok", "error", "throw"} :
        LET e == IF outcome = "ok" THEN NoError
                 ELSE Err("removePermission", -1, PlainMsg)
            logged == [revokeLog EXCEPT !.failed = IF outcome = "ok" THEN @ ELSE @ + 1]
        IN
        /\ delArns # <<>>
        /\ remote' = IF outcome = "ok"
                     THEN [remote EXCEPT !.grants = @ \ {Grant(c.FunctionName, c.StatementId)}]
                     ELSE remote
        /\ IF OnCleanupError(e) # NoError
           THEN /\ CompleteTask("ensureDeleted", DeleteTerminusError(OnCleanupError(e)), 1)
                /\ inflight' = inflight \ {c}
                /\ delArns' = delArns
                /\ revokeLog' = logged
           ELSE IF Tail(delArns) = <<>>
           THEN /\ CompleteTask("ensureDeleted", DeleteTerminusError(NoError), 1)
                /\ inflight' = inflight \ {c}
                /\ delArns' = <<>>
                /\ revokeLog' = logged
           ELSE /\ inflight' = (inflight \ {c}) \cup {RemovePermissionCall(Head(Tail(delArns)))}
                /\ delArns' = Tail(delArns)
                /\ revokeLog' = [logged EXCEPT !.attempted = Append(@, Head(Tail(delArns)))]
                /\ UNCHANGED << taskState, results, final >>
        /\ UNCHANGED << goVars, event, pc, data, sent, deployCalls >>
        /\ UNCHANGED walkVars

\* ------------------------------------------------- ensureAPICreatedTask
\* terminus of ensureAPICreatedTask: the error is recorded in the response
\* data and callback(null, createResults) is called.
CreatedTerminusError(e) == NoError

StartEnsureCreated ==
    /\ Ready("ensureCreated")
    /\ taskState' = [taskState EXCEPT !["ensureCreated"] = "running"]
    /\ inflight' = inflight \cup {[api |-> "createRestApi", task |-> "ensureCreated"]}
    /\ UNCHANGED << goVars, event, pc, results, final, data, sent, delArns, revokeLog, remote, deployCalls >>
    /\ UNCHANGED walkVars

OnCreateRestApi ==
    \E c \in Calls("createRestApi") : \E ok \in BOOLEAN :
        LET e == IF ok THEN NoError ELSE Err("createRestApi", -1, PlainMsg)
        IN /\ remote' = IF ok THEN [remote EXCEPT !.apis = @ + 1] ELSE remote
           /\ data' = [data EXCEPT !.ensureAPICreated = e]
           /\ CompleteTask("ensureCreated", CreatedTerminusError(e), IF ok THEN 1 ELSE 0)
           /\ inflight' = inflight \ {c}
           /\ UNCHANGED << goVars, event, pc, sent, delArns, revokeLog, deployCalls >>
           /\ UNCHANGED walkVars

\* ------------------------------------------------- ensureDeploymentTask
DeploymentCall(restApiId, stageDefinition) ==
    [api |-> "createDeployment", task |-> "ensureDeployment", restApiId |-> restApiId,
     stageName |-> stageDefinition.Name,
     stageDescription |-> OrElse(stageDefinition.Description, ""),
     variables |-> OrElse(stageDefinition.Variables, "{}")]

\* A deployment task that does not look at the stage name.
StageRequestedAlways(stageDefinition) == TRUE

\* if (stageDefinition.Name)
StageRequested(stageDefinition) == stageDefinition.Name # ""

StartEnsureDeployment ==
    /\ Ready("ensureDeployment")
    /\ IF StageRequested(event.Stage)
       THEN /\ taskState' = [taskState EXCEPT !["ensureDeployment"] = "running"]
            /\ inflight' = inflight \cup
                   {DeploymentCall(results["ensureCreated"], event.Stage)}
            /\ deployCalls' = deployCalls + 1
            /\ UNCHANGED << results, final >>
       ELSE /\ CompleteTask("ensureDeployment", NoError, results["ensureCreated"])
            /\ UNCHANGED << inflight, deployCalls >>
    /\ UNCHANGED << goVars, event, pc, data, sent, delArns, revokeLog, remote >>
    /\ UNCHANGED walkVars

OnCreateDeployment ==
    \E c \in Calls("createDeployment") : \E ok \in BOOLEAN :
        /\ CompleteTask("ensureDeployment",
                        IF ok THEN NoError ELSE Err("createDeployment", -1, PlainMsg), 1)
        /\ inflight' = inflight \ {c}
        /\ UNCHANGED << goVars, event, pc, data, sent, delArns, revokeLog, remote, deployCalls >>
        /\ UNCHANGED walkVars

\* --------------------------------------------- ensureResourcesCreatedTask
\* The id the remote side gives the resource created for a path part; the
\* pre-existing "/" resource is path part 0.
RemoteResourceId(pathPart) == 100 + pathPart

\* The {path -> id} maps getResources can answer with: the "/" resource of
\* the container, no item at all, or the "/" resource and a resource at the
\* path of node 1 (a container cloned from one that holds it).  The absolute
\* path of a node is named by the node, "/" by 0.
IndexChoices == { [p \in S |-> RemoteResourceId(p)] : S \in { {0}, {}, {0, 1} } }

\* resourceIndex[path], undefined (0) for a path the index lacks
Lookup(index, path) == IF path \in DOMAIN index THEN index[path] ELSE 0

StartEnsureResources ==
    /\ Ready("ensureResources")
    /\ taskState' = [taskState EXCEPT !["ensureResources"] = "running"]
    /\ inflight' = inflight \cup
           {[api |-> "getResources", task |-> "ensureResources",
             restApiId |-> results["ensureCreated"]]}
    /\ UNCHANGED << goVars, event, pc, results, final, data, sent, delArns, revokeLog, remote, deployCalls >>
    /\ UNCHANGED walkVars

\* The remote side answers getResources for a container it holds only.
OnGetResources ==
    \E c \in Calls("getResources") :
        /\ inflight' = inflight \ {c}
        /\ \/ /\ c.restApiId # 0
              /\ resourceIndex' \in IndexChoices
              /\ workerError' = NoError
              /\ tasksQ' = Append(tasksQ, [definition |-> 0, parentId |-> 0])
              /\ UNCHANGED << taskState, results, final >>
           \/ /\ CompleteTask("ensureResources", Err("getResources", -1, PlainMsg), 0)
              /\ UNCHANGED << resourceIndex, workerError, tasksQ >>
        /\ UNCHANGED << goVars, event, pc, data, sent, delArns, revokeLog, remote, deployCalls,
                        workers, jobs, cache, firstErr, resolved, walkLog >>

\* A queue of two workers.
QueueConcurrencyTwo == 1 + 1

\* async.queue(processResourceEntry, 1)
QueueConcurrency == 1

\* The tasks with the integration declared before the method response.
StageAfterSwapped(stage) ==
    CASE stage = "putMethod"              -> "putIntegration"
      [] stage = "putIntegration"         -> "putMethodResponse"
      [] stage = "putMethodResponse"      -> "putIntegrationResponse"
      [] stage = "putIntegrationResponse" -> "addPermission"
      [] stage = "addPermission"          -> "methodDescription"

\* The six tasks of methodCreationIterator; each is declared to depend on
\* all the tasks defined before it, so that each starts when the one before
\* it has succeeded.
StageAfter(stage) ==
    CASE stage = "putMethod"              -> "putMethodResponse"
      [] stage = "putMethodResponse"      -> "putIntegration"
      [] stage = "putIntegration"         -> "putIntegrationResponse"
      [] stage = "putIntegrationResponse" -> "addPermission"
      [] stage = "addPermission"          -> "methodDescription"

\* createMethods: createResourceResponse.id || resourceIndex["/"]
MethodResourceId(j) == IF j.rid # 0 THEN j.rid ELSE Lookup(resourceIndex, 0)

JobArn(j) == event.tree.res[j.node][j.ai].LambdaArn

StageCall(api, j) ==
    [api |-> api, task |-> "ensureResources", node |-> j.node, ai |-> j.ai, mi |-> j.mi,
     resourceId |-> MethodResourceId(j), restApiId |-> results["ensureCreated"],
     FunctionName |-> JobArn(j), StatementId |-> statementID(JobArn(j))]

\* A parsed policy document: its top-level keys with their values; a value is
\* a string, an array of statements or an object with a Sid.
AwsPolicy(arn) ==
    << [key |-> "Version", val |-> [t |-> "str"]],
       [key |-> "Id", val |-> [t |-> "str"]],
       [key |-> "Statement", val |-> [t |-> "arr", items |-> <<statementID(arn)>>]] >>
FlatPolicy(arn) ==
    << [key |-> "statement", val |-> [t |-> "obj", Sid |-> statementID(arn)]] >>

\* cachedValues[eachKey].Sid
PropSid(val) == IF val.t = "obj" THEN val.Sid ELSE <<>>

\* ensureLambdaPermissionCreated: the cached policy of the ARN has a key
\* whose value carries the statement id.
CacheMatching(cachedValues, sid) ==
    \E i \in 1..Len(cachedValues) : PropSid(cachedValues[i].val) = sid

\* The job and the calls it issues when it starts the given task of
\* methodCreationIterator.
BeginStage(j, stage) ==
    IF stage = "addPermission"
    THEN IF CacheMatching(cache[JobArn(j)], statementID(JobArn(j)))
         THEN [job |-> [j EXCEPT !.pc = "getMethod", !.done = @ \cup {"addPermission"}],
               calls |-> {StageCall("getMethod", j)}]
         ELSE [job |-> [j EXCEPT !.pc = "addPermission"],
               calls |-> {StageCall("addPermission", j)}]
    ELSE IF stage = "methodDescription"
    THEN [job |-> [j EXCEPT !.pc = "getMethod"], calls |-> {StageCall("getMethod", j)}]
    ELSE [job |-> [j EXCEPT !.pc = stage], calls |-> {StageCall(stage, j)}]

Failed(j, e) == [j EXCEPT !.pc = "complete", !.err = e]

\* A root that resolves to no id.
RootResourceNone(index) == 0

\* processTasks.createResource without a parentId: no call, the result is
\* { id: resourceIndex["/"] }.
RootResource(index) == Lookup(index, 0)

JobOf(c) == { j \in jobs : j.node = c.node /\ j.pc = c.api }

\* workerQueue.process: a free worker takes the next task and runs
\* processResourceEntry up to its first remote call.
Process ==
    /\ workers < QueueConcurrency
    /\ tasksQ # <<>>
    /\ LET t == Head(tasksQ)
           j == [node |-> t.definition, parentId |-> t.parentId, pc |-> "createResource",
                 rid |-> 0, ai |-> 1, mi |-> 1, done |-> {}, rejected |-> NoError,
                 err |-> NoError]
       IN IF t.parentId # 0
          THEN /\ jobs' = jobs \cup {j}
               /\ inflight' = inflight \cup
                      {[api |-> "createResource", task |-> "ensureResources",
                        node |-> t.definition, parentId |-> t.parentId,
                        pathPart |-> t.definition, restApiId |-> results["ensureCreated"]]}
               /\ resolved' = resolved
          ELSE /\ jobs' = jobs \cup
                      {[j EXCEPT !.pc = "createMethods", !.rid = RootResource(resourceIndex)]}
               /\ inflight' = inflight
               /\ resolved' = [resolved EXCEPT ![t.definition] = RootResource(resourceIndex)]
    /\ tasksQ' = Tail(tasksQ)
    /\ workers' = workers + 1
    /\ UNCHANGED << goVars, event, pc, taskState, results, final, data, sent, delArns, revokeLog, remote,
                    deployCalls, workerError, resourceIndex, cache, firstErr, walkLog >>

\* The frame of a step of a job.
JobFrame ==
    UNCHANGED << goVars, event, pc, taskState, results, final, data, sent, delArns, revokeLog, deployCalls,
                 tasksQ, workers, workerError, resourceIndex, firstErr >>

OnCreateResource ==
    \E c \in Calls("createResource") : \E j \in JobOf(c) :
        /\ inflight' = inflight \ {c}
        /\ \/ \E id \in {RemoteResourceId(c.pathPart), 0} :
                 /\ jobs' = (jobs \ {j}) \cup {[j EXCEPT !.pc = "createMethods", !.rid = id]}
                 /\ resolved' = [resolved EXCEPT ![j.node] = id]
           \/ /\ jobs' = (jobs \ {j}) \cup {Failed(j, Err("createResource", j.node, PlainMsg))}
              /\ resolved' = resolved
        /\ UNCHANGED << remote, cache, walkLog >>
        /\ JobFrame

\* createMethods: the next method of the node, or the end of the node.
NextMethod ==
    \E j \in jobs :
        /\ j.pc = "createMethods"
        /\ IF j.ai > Len(event.tree.res[j.node])
           THEN /\ jobs' = (jobs \ {j}) \cup {[j EXCEPT !.pc = "complete"]}
                /\ inflight' = inflight
           ELSE /\ jobs' = (jobs \ {j}) \cup {[j EXCEPT !.pc = "putMethod", !.done = {}]}
                /\ inflight' = inflight \cup {StageCall("putMethod", j)}
        /\ UNCHANGED << remote, cache, resolved, walkLog >>
        /\ JobFrame

\* The callback of putMethod, putMethodResponse, putIntegration or
\* putIntegrationResponse.
OnStage(api) ==
    \E c \in Calls(api) : \E j \in JobOf(c) : \E ok \in BOOLEAN :
        LET b == BeginStage([j EXCEPT !.done = @ \cup {api}], StageAfter(api))
        IN /\ IF ok
              THEN /\ jobs' = (jobs \ {j}) \cup {b.job}
                   /\ inflight' = (inflight \ {c}) \cup b.calls
              ELSE /\ jobs' = (jobs \ {j}) \cup {Failed(j, Err(api, j.node, PlainMsg))}
                   /\ inflight' = inflight \ {c}
           /\ UNCHANGED << remote, cache, resolved, walkLog >>
           /\ JobFrame

OnPutMethod == OnStage("putMethod")
OnPutMethodResponse == OnStage("putMethodResponse")
OnPutIntegration == OnStage("putIntegration")
OnPutIntegrationResponse == OnStage("putIntegrationResponse")

\* onAddPermission: an error matching RE_STATEMENT_ALREADY_EXISTS is dropped.
\* (The remote side that answers "already exists" holds the statement.)
OnAddPermissionError(msg) ==
    IF RE_STATEMENT_ALREADY_EXISTS(msg) THEN <<>> ELSE msg

OnAddPermission ==
    \E c \in Calls("addPermission") : \E j \in JobOf(c) :
        \/ /\ remote' = [remote EXCEPT !.grants =
                                  @ \cup {Grant(c.FunctionName, c.StatementId)}]
           /\ jobs' = (jobs \ {j}) \cup {[j EXCEPT !.pc = "getPolicy"]}
           /\ inflight' = (inflight \ {c}) \cup {StageCall("getPolicy", j)}
           /\ UNCHANGED << cache, resolved, walkLog >>
           /\ JobFrame
        \/ \E msg \in ErrMsgs :
              LET r == [j EXCEPT !.rejected = Err("addPermission", j.node, msg)]
              IN
              /\ IF OnAddPermissionError(msg) = <<>>
                 THEN /\ jobs' = (jobs \ {j}) \cup {[r EXCEPT !.pc = "getPolicy"]}
                      /\ inflight' = (inflight \ {c}) \cup {StageCall("getPolicy", j)}
                 ELSE /\ jobs' = (jobs \ {j}) \cup
                             {Failed(r, Err("addPermission", j.node, OnAddPermissionError(msg)))}
                      /\ inflight' = inflight \ {c}
              /\ remote' = IF RE_STATEMENT_ALREADY_EXISTS(msg)
                           THEN [remote EXCEPT !.grants =
                                     @ \cup {Grant(c.FunctionName, c.StatementId)}]
                           ELSE remote
              /\ UNCHANGED << cache, resolved, walkLog >>
              /\ JobFrame

\* The callback of getPolicy and terminus of ensureLambdaPermissionCreated:
\* the policy is parsed and cached; a policy that does not parse is an error.
OnGetPolicy ==
    \E c \in Calls("getPolicy") : \E j \in JobOf(c) :
      \E outcome \in {"error", "unparsable", "aws", "flat"} :
        /\ IF outcome \in {"error", "unparsable"}
           THEN /\ jobs' = (jobs \ {j}) \cup
                       {Failed([j EXCEPT !.rejected = NoError], Err(IF outcome = "error" THEN "getPolicy" ELSE "JSON.parse",
                                      j.node, PlainMsg))}
                /\ inflight' = inflight \ {c}
                /\ cache' = cache
           ELSE LET doc == IF outcome = "aws" THEN AwsPolicy(c.FunctionName)
                           ELSE FlatPolicy(c.FunctionName)
                    b == BeginStage([j EXCEPT !.done = @ \cup {"addPermission"},
                                              !.rejected = NoError],
                                    StageAfter("addPermission"))
                IN /\ cache' = [cache EXCEPT ![c.FunctionName] = doc]
                   /\ jobs' = (jobs \ {j}) \cup {b.job}
                   /\ inflight' = (inflight \ {c}) \cup b.calls
        /\ UNCHANGED << remote, resolved, walkLog >>
        /\ JobFrame

\* The callback of getMethod and terminus of methodCreationIterator; on
\* success eachSeries goes on with the next method.
OnGetMethod ==
    \E c \in Calls("getMethod") : \E j \in JobOf(c) : \E ok \in BOOLEAN :
        /\ inflight' = inflight \ {c}
        /\ IF ok
           THEN jobs' = (jobs \ {j}) \cup
                    {IF j.mi < event.tree.res[j.node][j.ai].Methods
                     THEN [j EXCEPT !.pc = "createMethods", !.mi = @ + 1, !.done = {}]
                     ELSE [j EXCEPT !.pc = "createMethods", !.ai = @ + 1, !.mi = 1,
                                    !.done = {}]}
           ELSE jobs' = (jobs \ {j}) \cup {Failed(j, Err("getMethod", j.node, PlainMsg))}
        /\ walkLog' = IF ok THEN [walkLog EXCEPT ![j.node].methods = @ + 1] ELSE walkLog
        /\ UNCHANGED << remote, cache, resolved >>
        /\ JobFrame

\* onProcessComplete: workerError = e
NextWorkerError(old, e) == e

\* An onProcessComplete that returns on an error without processCB.
WorkersAfterOnSuccessOnly(w, e) == IF e = NoError THEN w - 1 ELSE w

\* onProcessComplete ends with processCB(workerError) whatever the error is:
\* the queue releases the worker.
WorkersAfter(w, e) == w - 1

\* Child tasks that all name the "/" resource as their parent.
RECURSIVE ChildTasksUnderRoot(_, _)
ChildTasksUnderRoot(kids, parentId) ==
    IF kids = <<>> THEN <<>>
    ELSE <<[definition |-> Head(kids), parentId |-> Lookup(resourceIndex, 0)]>>
         \o ChildTasksUnderRoot(Tail(kids), parentId)

\* The tasks pushed for the children of a node, each with the id of the
\* node's createResource result as its parentId.
RECURSIVE ChildTasks(_, _)
ChildTasks(kids, parentId) ==
    IF kids = <<>> THEN <<>>
    ELSE <<[definition |-> Head(kids), parentId |-> parentId]>>
         \o ChildTasks(Tail(kids), parentId)

\* An onProcessComplete that pushes the children whatever the error is.
PushesChildrenAlways(e) == TRUE

\* onProcessComplete: if (!workerError), the children are pushed.
PushesChildren(e) == e = NoError

\* onProcessComplete, then the queue's callback of the worker: the queue
\* drains when no task is queued and no worker runs.
OnProcessComplete ==
    \E j \in jobs :
        /\ j.pc = "complete"
        /\ workerError' = NextWorkerError(workerError, j.err)
        /\ firstErr' = IF firstErr = NoError THEN j.err ELSE firstErr
        /\ tasksQ' = IF PushesChildren(workerError')
                     THEN tasksQ \o ChildTasks(Children(event.tree, j.node), j.rid)
                     ELSE tasksQ
        /\ jobs' = jobs \ {j}
        /\ walkLog' = [walkLog EXCEPT ![j.node].end =
                           IF j.err = NoError THEN "ok" ELSE "failed"]
        /\ workers' = WorkersAfter(workers, workerError')
        /\ IF Len(tasksQ') + workers' = 0
           THEN CompleteTask("ensureResources", workerError', 1)
           ELSE UNCHANGED << taskState, results, final >>
        /\ UNCHANGED << goVars, event, pc, data, sent, inflight, delArns, revokeLog, remote, deployCalls,
                        resourceIndex, cache, resolved >>

\* ------------------------------------------------------------ specification
Next ==
    \/ Handler
    \/ StartEnsureDeleted
    \/ OnGetRestApis
    \/ OnDeleteRestApi
    \/ OnRemovePermission
    \/ StartEnsureCreated
    \/ OnCreateRestApi
    \/ StartEnsureResources
    \/ OnGetResources
    \/ Process
    \/ OnCreateResource
    \/ NextMethod
    \/ OnPutMethod
    \/ OnPutMethodResponse
    \/ OnPutIntegration
    \/ OnPutIntegrationResponse
    \/ OnAddPermission
    \/ OnGetPolicy
    \/ OnGetMethod
    \/ OnProcessComplete
    \/ StartEnsureDeployment
    \/ OnCreateDeployment
    \/ OnComplete

Spec == Init /\ [][Next]_vars

\* Every remote call is called back in the end and every scheduled
\* continuation runs.
LiveSpec == Spec /\ WF_vars(Next)

\* =================================================== assembly (sparta.go)
\* A Go string is a sequence of tokens; ":" and " " are tokens of their own.
\* ---------------------------------------------------------- assembly bounds
\* function definitions given to one assembly
MaxFns == 2
\* grants and event-source mappings of all the definitions of one assembly
MaxItems == 2
\* seeds of math/rand (rand.Seed(time.Now().Unix()))
MaxSeed == 1

\* ---------------------------------------------------------- assembly values
S3Principal == <<"s3.amazonaws.com">>
SNSPrincipal == <<"sns.amazonaws.com">>

\* hex.EncodeToString(hash.Sum(nil)) of a SHA-1 over the bytes written: one
\* digest for each byte string.
Sha1Hex(bytes) == <<"sha1<">> \o bytes \o <<">">>

\* strings.Split(s, ":")
RECURSIVE Split(_)
Split(s) ==
    IF s = <<>> THEN << <<>> >>
    ELSE IF Head(s) = ":" THEN << <<>> >> \o Split(Tail(s))
    ELSE LET r == Split(Tail(s)) IN << <<Head(s)>> \o Head(r) >> \o Tail(r)

\* strings.Join(elems, " ")
RECURSIVE JoinSpace(_)
JoinSpace(elems) ==
    IF elems = <<>> THEN <<>>
    ELSE IF Len(elems) = 1 THEN Head(elems)
    ELSE Head(elems) \o <<" ">> \o JoinSpace(Tail(elems))

\* fmt.Sprintf("%s", privileges) of a []IAMRolePrivilege: [{[a b] r} ...]
FormatPrivilege(p) ==
    <<"{", "[">> \o JoinSpace(p.Actions) \o <<"]", " ">> \o p.Resource \o <<"}">>
FormatPrivileges(privileges) ==
    <<"[">> \o JoinSpace([i \in 1..Len(privileges) |-> FormatPrivilege(privileges[i])])
            \o <<"]">>

\* strconv.FormatInt(randValue, 10)
FormatInt(v) == <<ToString(v)>>

\* binary.Write(hash, binary.LittleEndian, batchSize)
LittleEndian(v) == <<"le64", ToString(v)>>

\* rand.Int63(): the value the generator gives after `drawn` more values; the
\* values of one seed differ from each other.
RandSeeds == 0..MaxSeed
Int63(drawn) == randSource.seed + randSource.calls + drawn

\* CloudFormationResourceName(prefix), with the value rand.Int63() gave
CloudFormationResourceName(prefix, randValue) ==
    prefix \o Sha1Hex(prefix \o FormatInt(randValue))

\* ---------------------------------------------------------- assembly inputs
\* Grants.  A LambdaPermission names its principal; the two below differ in
\* every field and write the same bytes to the hash.
Permissions ==
    { [kind |-> "Lambda", Principal |-> <<"p">>, SourceAccount |-> <<"q">>,
       SourceArn |-> <<"r">>],
      [kind |-> "Lambda", Principal |-> <<"p", "q">>, SourceAccount |-> <<>>,
       SourceArn |-> <<"r">>],
      [kind |-> "SNS", Principal |-> <<>>, SourceAccount |-> <<>>,
       SourceArn |-> <<"arn", ":", "aws", ":", "sns", ":", "topic">>],
      [kind |-> "S3", Principal |-> <<>>, SourceAccount |-> <<>>,
       SourceArn |-> <<"arn", ":", "aws", ":", "s3", ":", "bucket">>] }

\* Event-source mappings: two tables, a stream, a queue (a service without a
\* statement template) and an ARN of two segments.
EventSourceArns ==
    { <<"arn", ":", "aws", ":", "dynamodb", ":", "t1">>,
      <<"arn", ":", "aws", ":", "dynamodb", ":", "t2">>,
      <<"arn", ":", "aws", ":", "kinesis", ":", "s1">>,
      <<"arn", ":", "aws", ":", "sqs", ":", "q1">>,
      <<"arn", ":", "aws">> }
EventSourceMappings ==
    { [EventSourceArn |-> a, BatchSize |-> 10, StartingPosition |-> <<"LATEST">>]
        : a \in EventSourceArns }

\* Privileges of an inline role: the action "a b", or the actions "a", "b".
PrivilegeSets ==
    { << [Actions |-> << <<"a", " ", "b">> >>, Resource |-> <<"r">>] >>,
      << [Actions |-> << <<"a">>, <<"b">> >>, Resource |-> <<"r">>] >> }

\* The values NewLambda is given as roleNameOrIAMRoleDefinition: a string (a
\* role name or ""), an IAMRoleDefinition, or a value of another type (a
\* pointer to a definition, nil).
RoleArguments ==
    { [type |-> "string", name |-> n, privileges |-> <<>>] : n \in { <<"role">>, <<>> } }
    \cup { [type |-> "IAMRoleDefinition", name |-> <<>>, privileges |-> p]
              : p \in PrivilegeSets }
    \cup { [type |-> "other", name |-> <<>>, privileges |-> <<>>] }

\* NewLambda: the role fields of the definition it returns, RoleName and
\* RoleDefinition (nil, or a pointer to a copy of the definition given); it
\* panics on a value that is neither a string nor an IAMRoleDefinition.
NewLambda(roleNameOrIAMRoleDefinition) ==
    CASE roleNameOrIAMRoleDefinition.type = "string" ->
            [panic |-> FALSE,
             role |-> [RoleName |-> roleNameOrIAMRoleDefinition.name,
                       RoleDefinition |-> "nil", Privileges |-> <<>>]]
      [] roleNameOrIAMRoleDefinition.type = "IAMRoleDefinition" ->
            [panic |-> FALSE,
             role |-> [RoleName |-> <<>>, RoleDefinition |-> "set",
                       Privileges |-> roleNameOrIAMRoleDefinition.privileges]]
      [] OTHER ->
            [panic |-> TRUE,
             role |-> [RoleName |-> <<>>, RoleDefinition |-> "nil", Privileges |-> <<>>]]

\* The roles of the definitions NewLambda returns.
Roles ==
    { NewLambda(a).role : a \in { b \in RoleArguments : ~NewLambda(b).panic } }

\* The definitions NewLambda gives, with k grants and mappings: a function
\* name, a role, grants, mappings.
InfosOfSize(k) ==
    UNION { { [lambdaFnName |-> <<f>>, role |-> r, Permissions |-> g,
               EventSourceMappings |-> m] :
                f \in {"main.f", "main.g"}, r \in Roles,
                g \in [1..n -> Permissions], m \in [1..(k - n) -> EventSourceMappings] }
            : n \in 0..k }

\* The lists of n definitions with k grants and mappings at most.
RECURSIVE ListsOf(_, _)
ListsOf(n, k) ==
    IF n = 0 THEN { <<>> }
    ELSE UNION { { <<a>> \o rest : a \in InfosOfSize(j), rest \in ListsOf(n - 1, k - j) }
                 : j \in 0..k }

\* The lists of definitions given to Main; the functions are interchangeable
\* and the first one is main.f.
InfoLists ==
    { l \in UNION { ListsOf(n, MaxItems) : n \in 1..MaxFns } :
        l[1].lambdaFnName = <<"main.f">> }

\* --------------------------------------------------------- the document
\* resources[name] = resource
Put(doc, name, resource) ==
    [n \in DOMAIN doc \cup {name} |-> IF n = name THEN resource ELSE doc[n]]

\* A missing "Resource" key of a statement.
NoResource == <<>>

\* CommonIAMStatements as the package declares it.
CommonIAMStatementsDeclared ==
    [svc \in {<<"cloudformation">>, <<"dynamodb">>, <<"kinesis">>} |->
        [Effect |-> "Allow", Action |-> svc,
         Resource |-> IF svc = <<"cloudformation">>
                      THEN <<"arn", ":", "aws", ":", "logs", ":", "*", ":", "*", ":", "*">>
                      ELSE NoResource]]

\* A statement of a policy is a map: one the policy owns, or the map the
\* shared table holds for a service.
Own(statement) == [shared |-> FALSE, key |-> <<>>, val |-> statement]
Shared(svc) == [shared |-> TRUE, key |-> svc, val |-> <<>>]
Deref(ref, table) == IF ref.shared THEN table[ref.key] ELSE ref.val

\* ------------------------------------------------------------ rolePolicy
\* The statements of the explicit privileges.
PrivilegeStatements(privileges) ==
    [i \in 1..Len(privileges) |->
        Own([Effect |-> "Allow", Action |-> privileges[i].Actions,
             Resource |-> privileges[i].Resource])]

\* The body of the loop over the event-source mappings: the third segment of
\* the ARN is looked up in the table; the statement found is appended as it
\* is (a map is a reference) and its Resource is set through the slice.  An
\* ARN of exactly two segments indexes past the end of arnParts.
MappingStatement(acc, mapping) ==
    LET arnParts == Split(mapping.EventSourceArn)
    IN IF acc.panic \/ Len(arnParts) < 2 THEN acc
       ELSE IF Len(arnParts) < 3 THEN [acc EXCEPT !.panic = TRUE]
       ELSE LET awsService == arnParts[3]
            IN IF awsService \in DOMAIN acc.table
               THEN [acc EXCEPT !.statements = Append(@, Shared(awsService)),
                                !.table[awsService].Resource = mapping.EventSourceArn]
               ELSE acc

RECURSIVE MappingStatements(_, _)
MappingStatements(acc, mappings) ==
    IF mappings = <<>> THEN acc
    ELSE MappingStatements(MappingStatement(acc, Head(mappings)), Tail(mappings))

\* rolePolicy(eventSourceMappings): the statements of the policy, the shared
\* table after the call, and whether the call panicked.
rolePolicy(privileges, eventSourceMappings, table) ==
    MappingStatements(
        [statements |-> <<Shared(<<"cloudformation">>)>> \o PrivilegeStatements(privileges),
         table |-> table, panic |-> FALSE],
        eventSourceMappings)

\* logicalName: "IAMRole" and the SHA-1 of the formatted privileges.
logicalName(privileges) == <<"IAMRole">> \o Sha1Hex(FormatPrivileges(privileges))

\* The statements of a policy as they read with the given table.
ReadPolicy(statements, table) ==
    [i \in 1..Len(statements) |-> Deref(statements[i], table)]

\* ---------------------------------------------------------------- export
\* A Permission logical id made by CloudFormationResourceName.
PermissionNameRandom(principal, perm) ==
    CloudFormationResourceName(<<"LambdaPerm">>, Int63(0))

\* BasePermission.export: the logical id is "LambdaPerm" and the SHA-1 of the
\* principal, the source account and the source ARN written one after another
\* (an empty field writes nothing).
PermissionName(principal, perm) ==
    <<"LambdaPerm">> \o Sha1Hex(principal \o perm.SourceAccount \o perm.SourceArn)

\* BasePermission.export: the Permission resource; a field that is "" is left
\* out of the properties.
PermissionResource(principal, perm, targetLambdaFuncRef) ==
    [Type |-> "AWS::Lambda::Permission",
     Properties |-> [Action |-> "lambda:InvokeFunction",
                     FunctionName |-> targetLambdaFuncRef,
                     Principal |-> principal,
                     SourceAccount |-> perm.SourceAccount,
                     SourceArn |-> perm.SourceArn],
     DependsOn |-> <<>>]

\* The principal a grant is exported under.
PrincipalOf(perm) ==
    CASE perm.kind = "Lambda" -> perm.Principal
      [] perm.kind = "S3"     -> S3Principal
      [] perm.kind = "SNS"    -> SNSPrincipal

\* ensureConfiguratorLambdaResource: the logical id of the shared configurator
\* of a (principal, source) pair, and the document holding its resource.  The
\* call returns an error, and leaves the document alone, for a principal
\* whose configurator cannot be provided (`unavailable`).
ConfiguratorName(principal, sourceArn) ==
    <<"Configurator">> \o Sha1Hex(principal \o <<"|">> \o sourceArn)
ensureConfiguratorLambdaResource(principal, sourceArn, doc, unavailable) ==
    LET name == ConfiguratorName(principal, sourceArn)
    IN IF principal \in unavailable
       THEN [name |-> <<>>, doc |-> doc, err |-> TRUE]
       ELSE [name |-> name,
             doc |-> IF name \in DOMAIN doc THEN doc
                     ELSE Put(doc, name, [Type |-> "AWS::Lambda::Function",
                                          Properties |-> [Configures |-> principal],
                                          DependsOn |-> <<>>]),
             err |-> FALSE]

\* The last segment of the source ARN: bucketName, topicName.
LastSegment(arn) == LET parts == Split(arn) IN parts[Len(parts)]

\* An Unsubscribe resource that depends on the configurator only.
UnsubscriberDependsOnConfigurator(subscriberResourceName, configuratorResName) ==
    <<configuratorResName>>

\* SNSPermission.export: "DependsOn" of the Unsubscribe resource.
UnsubscriberDependsOn(subscriberResourceName, configuratorResName) ==
    <<subscriberResourceName>>

\* The export of one grant into the document when the export call has drawn
\* `drawn` random values so far: LambdaPermission.export, S3Permission.export,
\* SNSPermission.export.  The exporters of a bucket and of a topic return the
\* error of ensureConfiguratorLambdaResource, the Permission resource stored.
ExportPermission(perm, targetLambdaFuncRef, doc, drawn, unavailable) ==
    LET principal == PrincipalOf(perm)
        targetLambdaResourceName == PermissionName(principal, perm)
        doc1 == Put(doc, targetLambdaResourceName,
                    PermissionResource(principal, perm, targetLambdaFuncRef))
        cfg == ensureConfiguratorLambdaResource(principal, perm.SourceArn, doc1,
                                                unavailable)
        serviceToken == [GetAtt |-> <<cfg.name, <<"Arn">> >>]
    IN CASE perm.kind = "Lambda" ->
              [name |-> targetLambdaResourceName, doc |-> doc1, drawn |-> drawn,
               err |-> FALSE]
         [] perm.kind # "Lambda" /\ cfg.err ->
              [name |-> targetLambdaResourceName, doc |-> doc1, drawn |-> drawn,
               err |-> TRUE]
         [] perm.kind = "S3" ->
              LET resourceInvokerName ==
                      CloudFormationResourceName(<<"ConfigS3">> \o targetLambdaResourceName,
                                                 Int63(drawn))
              IN [name |-> targetLambdaResourceName, drawn |-> drawn + 1, err |-> FALSE,
                  doc |-> Put(cfg.doc, resourceInvokerName,
                              [Type |-> "AWS::CloudFormation::CustomResource",
                               Properties |-> [ServiceToken |-> serviceToken,
                                               LambdaTarget |-> targetLambdaFuncRef,
                                               Bucket |-> LastSegment(perm.SourceArn)],
                               DependsOn |-> <<targetLambdaResourceName, cfg.name>>])]
         [] perm.kind = "SNS" ->
              LET subscriberResourceName ==
                      CloudFormationResourceName(<<"SubscriberSNS">> \o targetLambdaResourceName,
                                                 Int63(drawn))
                  unsubscriberResourceName ==
                      CloudFormationResourceName(<<"UnsubscriberSNS">> \o targetLambdaResourceName,
                                                 Int63(drawn + 1))
                  doc2 == Put(cfg.doc, subscriberResourceName,
                              [Type |-> "AWS::CloudFormation::CustomResource",
                               Properties |-> [ServiceToken |-> serviceToken,
                                               Mode |-> "Subscribe",
                                               TopicArn |-> perm.SourceArn,
                                               LambdaTarget |-> targetLambdaFuncRef],
                               DependsOn |-> <<targetLambdaResourceName, cfg.name>>])
              IN [name |-> targetLambdaResourceName, drawn |-> drawn + 2, err |-> FALSE,
                  doc |-> Put(doc2, unsubscriberResourceName,
                              [Type |-> "AWS::CloudFormation::CustomResource",
                               Properties |-> [ServiceToken |-> serviceToken,
                                               Mode |-> "Unsubscribe",
                                               SubscriptionArn |->
                                                   [GetAtt |-> <<subscriberResourceName,
                                                                 <<"SubscriptionArn">> >>],
                                               TopicArn |-> perm.SourceArn,
                                               LambdaTarget |-> targetLambdaFuncRef],
                               DependsOn |-> UnsubscriberDependsOn(subscriberResourceName,
                                                                   cfg.name)])]

\* A loop that goes on after an error.
ReturnsNever(err) == FALSE

\* if nil != err { return err }
ReturnsOn(err) == err

\* The loop over info.Permissions: the names of the grants exported without
\* error, the document, and whether an exporter returned an error.
RECURSIVE ExportPermissions(_, _, _, _)
ExportPermissions(perms, targetLambdaFuncRef, acc, unavailable) ==
    IF perms = <<>> \/ ReturnsOn(acc.err) THEN acc
    ELSE LET r == ExportPermission(Head(perms), targetLambdaFuncRef, acc.doc, acc.drawn,
                                   unavailable)
         IN ExportPermissions(Tail(perms), targetLambdaFuncRef,
                              [names |-> IF r.err THEN acc.names
                                         ELSE Append(acc.names, r.name),
                               doc |-> r.doc, drawn |-> r.drawn,
                               err |-> acc.err \/ r.err],
                              unavailable)

\* The logical id of an event-source mapping.
EventSourceMappingName(m) ==
    <<"LambdaES">> \o Sha1Hex(m.EventSourceArn \o LittleEndian(m.BatchSize)
                                \o m.StartingPosition)

\* The loop over info.EventSourceMappings.
RECURSIVE ExportEventSourceMappings(_, _, _)
ExportEventSourceMappings(mappings, functionAttr, doc) ==
    IF mappings = <<>> THEN doc
    ELSE ExportEventSourceMappings(
             Tail(mappings), functionAttr,
             Put(doc, EventSourceMappingName(Head(mappings)),
                 [Type |-> "AWS::Lambda::EventSourceMapping",
                  Properties |-> [EventSourceArn |-> Head(mappings).EventSourceArn,
                                  FunctionName |-> functionAttr,
                                  StartingPosition |-> Head(mappings).StartingPosition,
                                  BatchSize |-> Head(mappings).BatchSize],
                  DependsOn |-> <<>>]))

\* A function logical id made by CloudFormationResourceName.
FunctionNameRandom(info) == CloudFormationResourceName(<<"Lambda">>, Int63(0))

\* The logical id of the function resource.
FunctionName(info) == <<"Lambda">> \o Sha1Hex(info.lambdaFnName)

\* The role a function resource is declared with: RoleName, or the logical
\* name of the inline definition.
IamRoleArnName(info) ==
    IF info.role.RoleName # <<>> THEN info.role.RoleName
    ELSE logicalName(info.role.Privileges)

\* A function resource without dependencies.
DependsOnNone(info) == <<>>

\* dependsOn of the function resource: the logical name of the inline role
\* when the definition names no role.
DependsOn(info) ==
    IF info.role.RoleName = <<>> THEN <<IamRoleArnName(info)>> ELSE <<>>

\* ---------------------------------------------------------- the assembly
\* The step the assembly takes for definition i.
StepOf(infos, i) ==
    IF i > Len(infos) THEN [i |-> i, step |-> "done"]
    ELSE IF infos[i].role.RoleName = <<>> /\ infos[i].role.RoleDefinition # "nil"
    THEN [i |-> i, step |-> "rolePolicy"]
    ELSE [i |-> i, step |-> "export"]

AssemblyInit ==
    /\ lambdaAWSInfos \in InfoLists
    /\ next = StepOf(lambdaAWSInfos, 1)
    /\ resources = << >>
    /\ CommonIAMStatements = CommonIAMStatementsDeclared
    /\ policies = <<>>
    /\ exports = <<>>
    /\ randSource \in [seed : RandSeeds, calls : {0}]
    /\ event = [RequestType |-> "Create", ResourceProperties |-> FALSE, tree |-> NoTree,
                Stage |-> NoStage, old |-> NoTree]
    /\ pc = "off"
    /\ taskState = [t \in Tasks |-> "absent"]
    /\ results = [t \in Tasks |-> 0]
    /\ final = [state |-> "idle", err |-> NoError]
    /\ data = [Error |-> NoError, Result |-> FALSE, ensureAPICreated |-> NoError]
    /\ sent = <<>>
    /\ inflight = {}
    /\ delArns = <<>>
    /\ tasksQ = <<>>
    /\ workers = 0
    /\ jobs = {}
    /\ workerError = NoError
    /\ resourceIndex = << >>
    /\ cache = [a \in Arns |-> EmptyDoc]
    /\ remote = [apis |-> 0, grants |-> {}]
    /\ firstErr = NoError
    /\ resolved = << >>
    /\ deployCalls = 0
    /\ revokeLog = NoRevokes
    /\ walkLog = << >>

jsVars == << event, pc, taskState, results, final, data, sent, inflight, delArns,
             tasksQ, workers, jobs, workerError, resourceIndex, cache, remote,
             firstErr, resolved, deployCalls, revokeLog, walkLog >>

\* The policy of the inline role of the definition is synthesized.
RolePolicy ==
    /\ next.step = "rolePolicy"
    /\ LET info == lambdaAWSInfos[next.i]
           r == rolePolicy(info.role.Privileges, info.EventSourceMappings,
                           CommonIAMStatements)
       IN /\ CommonIAMStatements' = r.table
          /\ IF r.panic
             THEN /\ next' = [next EXCEPT !.step = "panic"]
                  /\ policies' = policies
             ELSE /\ next' = [next EXCEPT !.step = "export"]
                  /\ policies' = Append(policies,
                        [i |-> next.i,
                         name |-> logicalName(info.role.Privileges),
                         statements |-> r.statements,
                         read |-> ReadPolicy(r.statements, r.table)])
    /\ UNCHANGED << lambdaAWSInfos, resources, exports, randSource >>
    /\ UNCHANGED jsVars

\* info.RoleDefinition.logicalName() reads the fields of a nil pointer.
NilRole(info) == info.role.RoleName = <<>> /\ info.role.RoleDefinition = "nil"

\* LambdaAWSInfo.export of the definition; an error it returns ends the
\* assembly, and so does the panic of a definition without a role, before
\* anything is stored.
Export ==
    /\ next.step = "export"
    /\ \E unavailable \in SUBSET {S3Principal, SNSPrincipal} :
       LET info == lambdaAWSInfos[next.i]
           resourceName == FunctionName(info)
           functionAttr == [GetAtt |-> <<resourceName, <<"Arn">> >>]
           primaryResource ==
               [Type |-> "AWS::Lambda::Function",
                Properties |-> [Handler |-> info.lambdaFnName,
                                Role |-> IamRoleArnName(info)],
                DependsOn |-> DependsOn(info)]
           perms == ExportPermissions(info.Permissions, functionAttr,
                                      [names |-> <<>>,
                                       doc |-> Put(resources, resourceName, primaryResource),
                                       drawn |-> 0, err |-> FALSE],
                                      unavailable)
           returns == ReturnsOn(perms.err)
           ms == info.EventSourceMappings
       IN IF NilRole(info)
          THEN /\ next' = [next EXCEPT !.step = "panic"]
               /\ UNCHANGED << resources, exports, randSource >>
          ELSE
          /\ resources' = IF returns THEN perms.doc
                          ELSE ExportEventSourceMappings(ms, functionAttr, perms.doc)
          /\ exports' = Append(exports,
                 [i |-> next.i, function |-> resourceName,
                  role |-> IamRoleArnName(info), permissions |-> perms.names,
                  dependsOn |-> primaryResource.DependsOn,
                  mappings |-> IF returns THEN <<>>
                               ELSE [k \in 1..Len(ms) |-> EventSourceMappingName(ms[k])],
                  err |-> perms.err])
          /\ randSource' = [randSource EXCEPT !.calls = @ + perms.drawn]
          /\ next' = IF returns THEN [next EXCEPT !.step = "failed"]
                     ELSE StepOf(lambdaAWSInfos, next.i + 1)
    /\ UNCHANGED << lambdaAWSInfos, CommonIAMStatements, policies >>
    /\ UNCHANGED jsVars

AssemblyNext == RolePolicy \/ Export

AssemblySpec == AssemblyInit /\ [][AssemblyNext]_vars

\* ------------------------------------------------------------------ claims
WalkApis == {"createResource", "putMethod", "putMethodResponse", "putIntegration",
             "putIntegrationResponse", "addPermission", "getPolicy", "getMethod"}
WalkCalls == { c \in inflight : c.api \in WalkApis }

Responded(status) == pc = "done" /\ Len(sent) = 1 /\ sent[1].Status = status

\* C1: whatever the request and whatever remote calls fail, response.send is
\* called at most once at any time, and exactly once when the invocation ends.
C1_ExactlyOneResponse ==
    /\ Len(sent) <= 1
    /\ pc = "done" => Len(sent) = 1

\* An invocation that ended after a node of the walk failed.
C1_Witness == Responded("FAILED") /\ firstErr # NoError

\* C2: when a node of the walk fails, the single response is FAILED and
\* carries the first error a node ended with.
C2_FailedWalkReportsFirstError ==
    (pc = "done" /\ firstErr # NoError) =>
        /\ Len(sent) = 1
        /\ sent[1].Status = "FAILED"
        /\ sent[1].Error = firstErr

\* C3: a Delete request ends with a SUCCESS response, whatever calls fail.
C3_DeleteAlwaysSucceeds ==
    (pc = "done" /\ event.RequestType = "Delete") => Responded("SUCCESS")

\* A Delete that ended while the container it should remove is still there:
\* its getRestApis or its deleteRestApi failed.
C3_Witness ==
    /\ event.RequestType = "Delete"
    /\ event.ResourceProperties
    /\ remote.apis > 0
    /\ Responded("SUCCESS")

\* C4: a node is processed, and the createResource of a child is issued, only
\* once the createResource step of its parent has given an id, and the call
\* carries that id as parentId.
C4_ChildAfterParent ==
    /\ \A j \in jobs : j.node # 0 => resolved[event.tree.par[j.node]] # Unresolved
    /\ \A c \in Calls("createResource") :
          /\ c.node # 0
          /\ c.parentId # 0
          /\ c.parentId = resolved[event.tree.par[c.node]]
          /\ c.pathPart = c.node

\* The createResource of a grandchild of the root is in flight.
C4_Witness ==
    \E c \in Calls("createResource") : event.tree.par[c.node] # 0

\* C5: the calls of a method are issued in the order putMethod,
\* putMethodResponse, putIntegration, putIntegrationResponse, addPermission,
\* each once the stages before it succeeded for that method, and a node whose
\* stage failed has no call in flight.
C5_Pipeline ==
    <<"putMethod", "putMethodResponse", "putIntegration", "putIntegrationResponse",
      "addPermission">>

C5_StagesInOrder ==
    /\ \A c \in WalkCalls : \A i \in 1..Len(C5_Pipeline) :
          c.api = C5_Pipeline[i] =>
              \E j \in jobs :
                  /\ j.node = c.node /\ j.ai = c.ai /\ j.mi = c.mi
                  /\ j.pc = c.api
                  /\ j.done = { C5_Pipeline[k] : k \in 1..(i-1) }
    /\ \A j \in jobs : j.pc = "complete" => \A c \in WalkCalls : c.node # j.node

\* The grant of the second method of a tree is in flight.
C5_Witness ==
    \E c \in Calls("addPermission") : c.ai = 2 \/ c.mi = 2

\* C6, as stated: a Create/Update without a stage name issues no
\* createDeployment, one with a stage name issues exactly one.
C6_ExactlyOneDeployment ==
    (pc = "done" /\ event.ResourceProperties /\ event.RequestType # "Delete") =>
        deployCalls = IF event.Stage.Name # "" THEN 1 ELSE 0

\* C6, amended: without a stage name no createDeployment is issued; with one,
\* at most one is issued, exactly one when ensureResources completed without
\* error and none otherwise; the call carries the stage name, description and
\* variables of the request.
C6_DeploymentGating ==
    /\ deployCalls <= 1
    /\ event.Stage.Name = "" => deployCalls = 0
    /\ (pc = "done" /\ event.Stage.Name # "") =>
          deployCalls = IF taskState["ensureResources"] = "done" THEN 1 ELSE 0
    /\ \A c \in Calls("createDeployment") :
          /\ deployCalls = 1
          /\ c.stageName = event.Stage.Name
          /\ c.stageDescription = event.Stage.Description
          /\ event.Stage.Variables # "" => c.variables = event.Stage.Variables

\* An invocation with a named stage ended after its one createDeployment.
C6_Witness ==
    /\ pc = "done"
    /\ event.Stage.Name # ""
    /\ deployCalls = 1

\* The error texts that match 'ResourceConflictException ... already exists'.
C7_ConflictTexts == { <<"RCE", "x", "AE">> }

\* C7: an addPermission rejection whose text matches the pattern leaves the
\* method without error and its pipeline going on, and no error with such a
\* text is ever reported; any other rejection ends the node with that error.
C7_ConflictSuppressed ==
    /\ \A j \in jobs :
          j.rejected # NoError =>
              IF j.rejected.msg \in C7_ConflictTexts
              THEN j.err = NoError /\ j.pc = "getPolicy"
                   /\ \E c \in Calls("getPolicy") : c.node = j.node
              ELSE j.pc = "complete" /\ j.err = j.rejected
    /\ workerError.msg \notin C7_ConflictTexts
    /\ final.err.msg \notin C7_ConflictTexts
    /\ \A i \in 1..Len(sent) : sent[i].Error.msg \notin C7_ConflictTexts

\* A grant was rejected with "already exists" and its method goes on.
C7_Witness ==
    \E j \in jobs : j.rejected.msg \in C7_ConflictTexts /\ j.pc = "getPolicy"

\* C8: at most one node is being processed and at most one remote call of
\* the walk is in flight.
C8_WalkSerialized ==
    /\ Cardinality(jobs) <= 1
    /\ Cardinality(WalkCalls) <= 1
    /\ workers = Cardinality(jobs)

\* A method call of a node is in flight while a sibling waits in the queue.
C8_Witness ==
    /\ tasksQ # <<>>
    /\ \E c \in WalkCalls : c.api = "putMethod" /\ c.mi = 2

\* C9: a call of a top-level task is in flight only while that task runs and
\* every task before it in the chain ensureDeleted, ensureCreated,
\* ensureResources, ensureDeployment has completed; a completed task stays
\* completed and issues no call.
C9_Chain == <<"ensureDeleted", "ensureCreated", "ensureResources", "ensureDeployment">>

C9_LinearStages ==
    /\ [](\A c \in inflight : \A i \in 1..Len(C9_Chain) :
            c.task = C9_Chain[i] =>
                /\ taskState[c.task] = "running"
                /\ \A k \in 1..(i-1) : taskState[C9_Chain[k]] = "done")
    /\ [][\A t \in Tasks :
            /\ taskState[t] = "done" => taskState'[t] = "done"
            /\ taskState[t] = "failed" => taskState'[t] = "failed"
            /\ taskState[t] # "running" /\ taskState'[t] # "running" =>
                  \A c \in inflight' \ inflight : c.task # t]_vars

\* The createDeployment of an invocation is in flight.
C9_Witness == Calls("createDeployment") # {}

\* C10: every invocation delivers its response in the end.
C10_ResponseDelivered == <>(pc = "done" /\ Len(sent) = 1)

\* An invocation ended after a walk over a tree with a grandchild.
C10_Witness ==
    /\ pc = "done"
    /\ Len(sent) = 1
    /\ \E n \in Nodes(event.tree) : n # 0 /\ resolved[n] # Unresolved
                                    /\ event.tree.par[n] # 0

\* C11: on a Delete whose container lookup/deletion completed without error,
\* the revokes are attempted in the order of the target functions of the old
\* properties' tree, one at a time; while the task runs the revoke of the last
\* attempted target is in flight whatever the earlier ones ended with, and
\* when the task has completed a revoke was attempted for every target.
C11_RevokeEveryTarget ==
    LET lambdaArns == accumulatedStackLambdas(event.old, 0)
        n == Len(revokeLog.attempted)
    IN event.RequestType = "Delete" =>
          /\ n <= Len(lambdaArns)
          /\ revokeLog.attempted = SubSeq(lambdaArns, 1, n)
          /\ revokeLog.failed <= n
          /\ revokeLog.lookup # "ok" => n = 0
          /\ (revokeLog.lookup = "ok" /\ taskState["ensureDeleted"] = "running") =>
                /\ n >= 1
                /\ Calls("removePermission") = {RemovePermissionCall(lambdaArns[n])}
          /\ (revokeLog.lookup = "ok" /\ taskState["ensureDeleted"] # "running") =>
                /\ taskState["ensureDeleted"] = "done"
                /\ revokeLog.attempted = lambdaArns
                /\ Calls("removePermission") = {}

\* A Delete ended after the revoke of its first target failed and the revoke
\* of its second target was attempted.
C11_Witness ==
    /\ event.RequestType = "Delete"
    /\ pc = "done"
    /\ revokeLog.lookup = "ok"
    /\ Len(revokeLog.attempted) = 2
    /\ revokeLog.failed >= 1

\* C12: a grant and a revoke name the statement by the same function of the
\* target's ARN; a Create whose nodes all ended without error leaves exactly
\* the statements of its tree's targets, and a Delete with that tree as old
\* properties whose lookup, deletion and revokes all succeeded leaves none of
\* them.
C12_GrantRoundTrip ==
    /\ \A c \in Calls("addPermission") \cup Calls("removePermission") :
          c.StatementId = statementID(c.FunctionName)
    /\ (/\ event.RequestType = "Create"
        /\ pc = "done"
        /\ \A n \in Nodes(event.tree) : walkLog[n].end = "ok") =>
            remote.grants = GrantsOf(event.tree)
    /\ (/\ event.RequestType = "Delete"
        /\ pc = "done"
        /\ revokeLog.lookup = "ok"
        /\ revokeLog.failed = 0) =>
            remote.grants \cap GrantsOf(event.old) = {}

\* A Delete over a tree of two targets: the first revoke removed its statement
\* and the revoke of the second, whose statement is still there, is in flight.
C12_Witness ==
    /\ event.RequestType = "Delete"
    /\ revokeLog.failed = 0
    /\ Len(revokeLog.attempted) = 2
    /\ \E c \in Calls("removePermission") :
          remote.grants = {Grant(c.FunctionName, c.StatementId)}

\* ------------------------------------------------- claims of the assembly
\* The grants the exports so far have exported, each with the definition it
\* belongs to and the logical id its Permission resource was stored under.
ExportedGrants ==
    UNION { { [i |-> exports[e].i, perm |-> lambdaAWSInfos[exports[e].i].Permissions[k],
               name |-> exports[e].permissions[k]]
              : k \in 1..Len(exports[e].permissions) } : e \in 1..Len(exports) }

Triple(perm) == <<PrincipalOf(perm), perm.SourceAccount, perm.SourceArn>>

Elems(seq) == { seq[i] : i \in 1..Len(seq) }

\* C13: two assemblies of definitions with the same function name use the
\* same function logical id, two with the same inline privileges the same role
\* logical id, and a grant is stored under the same Permission logical id
\* each time it is exported.
C13_StableLogicalIds ==
    /\ \A a, b \in 1..Len(exports) :
          LET x == lambdaAWSInfos[exports[a].i]
              y == lambdaAWSInfos[exports[b].i]
          IN /\ x.lambdaFnName = y.lambdaFnName => exports[a].function = exports[b].function
             /\ x.role = y.role => exports[a].role = exports[b].role
    /\ \A g, h \in ExportedGrants : g.perm = h.perm => g.name = h.name

\* The same definition, with an inline role and a topic subscription, was
\* assembled twice.
C13_Witness ==
    /\ Len(exports) = 2
    /\ lambdaAWSInfos[1] = lambdaAWSInfos[2]
    /\ lambdaAWSInfos[1].role.RoleName = <<>>
    /\ \E g \in ExportedGrants : g.perm.kind = "SNS"

\* C14: two inline roles have the same logical id exactly when the statements
\* of their policies (the logging statement, the explicit privileges and the
\* statements of the event-source mappings) are the same.
C14_RoleIdIffPrivilegeSet ==
    \A a, b \in 1..Len(policies) :
        (policies[a].name = policies[b].name)
            <=> (Elems(policies[a].read) = Elems(policies[b].read))

\* The service of an event-source mapping has a statement template.
C15_Known(m) ==
    LET arnParts == Split(m.EventSourceArn)
    IN Len(arnParts) >= 3 /\ arnParts[3] \in DOMAIN CommonIAMStatementsDeclared

\* C15: the policy rolePolicy returns has, for every mapping of a service with
\* a template, a statement whose Resource is the ARN of that mapping, and no
\* statement for any other mapping.
C15_MappingStatementsScoped ==
    \A a \in 1..Len(policies) :
        LET info == lambdaAWSInfos[policies[a].i]
            ms == info.EventSourceMappings
        IN /\ \A k \in 1..Len(ms) :
                 C15_Known(ms[k]) =>
                     \E n \in 1..Len(policies[a].read) :
                         policies[a].read[n].Resource = ms[k].EventSourceArn
           /\ Len(policies[a].read) =
                 1 + Len(info.role.Privileges)
                   + Cardinality({ k \in 1..Len(ms) : C15_Known(ms[k]) })

\* The Permission resources of the document that carry the triple.
C16_PermissionsFor(triple) ==
    { n \in DOMAIN resources :
        /\ resources[n].Type = "AWS::Lambda::Permission"
        /\ << resources[n].Properties.Principal, resources[n].Properties.SourceAccount,
              resources[n].Properties.SourceArn >> = triple }

C17_SubscribeUnsubscribe ==
    \A g \in { x \in ExportedGrants : x.perm.kind = "SNS" } :
        \E sub, unsub \in DOMAIN resources :
            LET configurator == ConfiguratorName(SNSPrincipal, g.perm.SourceArn)
            IN /\ "Mode" \in DOMAIN resources[sub].Properties
               /\ resources[sub].Properties.Mode = "Subscribe"
               /\ resources[sub].Properties.TopicArn = g.perm.SourceArn
               /\ {g.name, configurator} \subseteq Elems(resources[sub].DependsOn)
               /\ {g.name, configurator} \subseteq DOMAIN resources
               /\ resources[g.name].Type = "AWS::Lambda::Permission"
               /\ "Mode" \in DOMAIN resources[unsub].Properties
               /\ resources[unsub].Properties.Mode = "Unsubscribe"
               /\ resources[unsub].Properties.TopicArn = g.perm.SourceArn
               /\ sub \in Elems(resources[unsub].DependsOn)
               /\ resources[unsub].Properties.SubscriptionArn =
                      [GetAtt |-> <<sub, <<"SubscriptionArn">> >>]

\* Two functions subscribed to the topic: the document holds two Subscribe
\* resources.
C17_Witness ==
    /\ \E g, h \in ExportedGrants : g.i # h.i /\ g.perm.kind = "SNS" /\ h.perm.kind = "SNS"
    /\ Cardinality({ n \in DOMAIN resources :
                        /\ "Mode" \in DOMAIN resources[n].Properties
                        /\ resources[n].Properties.Mode = "Subscribe" }) = 2

\* ------------------------------------------------- claims of the tree walk
\* The node has been taken up by the walk: a task of it is queued, it is being
\* processed, or its processing has ended.
Seen(n) ==
    \/ \E k \in 1..Len(tasksQ) : tasksQ[k].definition = n
    \/ \E j \in jobs : j.node = n
    \/ \E c \in WalkCalls : c.node = n
    \/ walkLog[n].end # "none"
    \/ resolved[n] # Unresolved

RECURSIVE IsDescendant(_, _)
IsDescendant(d, n) ==
    d # 0 /\ (event.tree.par[d] = n \/ IsDescendant(event.tree.par[d], n))

\* C18: a node other than the root is queued or processed only when the
\* processing of its parent has ended without error, after the parent's
\* createResource step and the pipelines of all the parent's methods; no
\* descendant of a node that failed is ever queued, processed or created.
C18_ChildrenAfterParentSucceeded ==
    \A n \in Nodes(event.tree) :
        /\ (n # 0 /\ Seen(n)) =>
              LET p == event.tree.par[n]
              IN /\ walkLog[p].end = "ok"
                 /\ resolved[p] # Unresolved
                 /\ walkLog[p].methods = SumMethods(event.tree.res[p])
        /\ walkLog[n].end = "failed" =>
              \A d \in Nodes(event.tree) : IsDescendant(d, n) => ~Seen(d)

\* The invocation ended after the second method of a node with a child
\* failed.
C18_Witness ==
    /\ pc = "done"
    /\ \E n \in Nodes(event.tree) :
          /\ walkLog[n].end = "failed"
          /\ walkLog[n].methods = 1
          /\ Children(event.tree, n) # <<>>

\* C19: once the processing of a node has failed, no call of the walk is
\* issued any more.
C19_NoWorkAfterFailure ==
    (\E n \in Nodes(event.tree) : walkLog[n].end = "failed") => WalkCalls = {}

\* C20: createDeployment is issued only when every node of the tree ended
\* without error with all its methods, and an invocation whose
\* createDeployment failed responds FAILED.
C20_DeployOnlyFinishedApi ==
    /\ deployCalls > 0 =>
          \A n \in Nodes(event.tree) :
              /\ walkLog[n].end = "ok"
              /\ walkLog[n].methods = SumMethods(event.tree.res[n])
    /\ (pc = "done" /\ taskState["ensureDeployment"] = "failed") => Responded("FAILED")

\* C21: once the policy of a target function is cached (its permission was
\* granted and getPolicy answered), no addPermission and no getPolicy is
\* issued for that target any more.
C21_GrantOncePerTarget ==
    \A c \in Calls("addPermission") \cup Calls("getPolicy") :
        cache[c.FunctionName] = EmptyDoc

\* C22: no createResource is issued for a node whose path the index fetched
\* before the walk already holds, and the id the node resolves to is the
\* indexed one.
C22_ExistingResourceReused ==
    /\ \A c \in Calls("createResource") : c.node \notin DOMAIN resourceIndex
    /\ \A n \in Nodes(event.tree) \ {0} :
          (n \in DOMAIN resourceIndex /\ walkLog[n].end = "ok") =>
              resolved[n] = resourceIndex[n]

\* C23: the root node never triggers a createResource call; the id it
\* resolves to is the id the index holds for "/", and this id is the
\* resourceId of the calls of its methods and the parentId of its children's
\* tasks and createResource calls.
C23_RootReusesIndexedId ==
    LET rootId == Lookup(resourceIndex, 0)
        kids == Elems(Children(event.tree, 0))
    IN /\ \A c \in Calls("createResource") : c.node # 0
       /\ 0 \in Nodes(event.tree) => resolved[0] \in {Unresolved, rootId}
       /\ \A c \in WalkCalls : (c.api # "createResource" /\ c.node = 0) => c.resourceId = rootId
       /\ \A i \in 1..Len(tasksQ) : tasksQ[i].definition \in kids => tasksQ[i].parentId = rootId
       /\ \A c \in Calls("createResource") : c.node \in kids => c.parentId = rootId

\* The root ended with a method of its own, and the createResource of a
\* child of the root is in flight under the indexed id of "/".
C23_Witness ==
    /\ 0 \in Nodes(event.tree)
    /\ walkLog[0].end = "ok"
    /\ walkLog[0].methods > 0
    /\ \E c \in Calls("createResource") :
          /\ c.node \in Elems(Children(event.tree, 0))
          /\ c.parentId = RemoteResourceId(0)

C24_Apis ==
    {"getRestApis", "deleteRestApi", "removePermission", "createRestApi", "getResources",
     "getPolicy", "createDeployment"} \cup WalkApis

InlineRole(k) == lambdaAWSInfos[exports[k].i].role.RoleName = <<>>

\* The inline role of export k is new to the assembly: no definition
\* assembled before it has a role of the same logical id.
FreshRole(k) ==
    /\ InlineRole(k)
    /\ \A j \in 1..(k - 1) : ~(InlineRole(j) /\ exports[j].role = exports[k].role)

\* C25 (as stated): a function depends on its inline role when the role is
\* new to the assembly, and on nothing when it names a role or when its role
\* has the logical id of the role of a definition assembled before.
C25_DependsOnFreshRoleOnly ==
    \A k \in 1..Len(exports) :
        exports[k].dependsOn = IF FreshRole(k) THEN <<exports[k].role>> ELSE <<>>

\* C25 (amended): a function with an inline role depends on the role of that
\* logical id whether the role is new to the assembly or not; a function with
\* a named role depends on nothing.
C25_DependsOnInlineRole ==
    \A k \in 1..Len(exports) :
        exports[k].dependsOn = IF InlineRole(k) THEN <<exports[k].role>> ELSE <<>>

\* Two definitions with the same inline role are assembled: the second one
\* depends on the role as the first does.
C25_Witness ==
    \E j \in 1..Len(exports) : \E k \in 1..Len(exports) :
        /\ j < k
        /\ InlineRole(k)
        /\ ~FreshRole(k)
        /\ exports[j].role = exports[k].role
        /\ exports[k].dependsOn = <<exports[k].role>>

\* The logical ids stored by the exports before export e.
StoredBefore(e) ==
    UNION { Elems(exports[d].permissions) \cup Elems(exports[d].mappings)
            : d \in 1..(e - 1) }

\* C26: the grants of a function are exported in the order of their
\* declaration; an export whose exporter returned an error has exported the
\* grants declared before the failing one only and no event-source mapping,
\* stores nothing for them, and hands the error to its caller; an export
\* without error has exported every grant and every mapping.
C26_FirstErrorAborts ==
    /\ \A e \in 1..Len(exports) :
          LET x == exports[e]
              info == lambdaAWSInfos[x.i]
              ps == info.Permissions
              ms == info.EventSourceMappings
              n == Len(x.permissions)
              Name(k) == PermissionName(PrincipalOf(ps[k]), ps[k])
          IN /\ n <= Len(ps)
             /\ \A k \in 1..n : x.permissions[k] = Name(k)
             /\ IF x.err
                THEN /\ n < Len(ps)
                     /\ ps[n + 1].kind # "Lambda"
                     /\ x.mappings = <<>>
                     /\ e = Len(exports)
                     /\ next = [i |-> x.i, step |-> "failed"]
                     /\ \A k \in 1..Len(ms) :
                           EventSourceMappingName(ms[k]) \in DOMAIN resources =>
                               EventSourceMappingName(ms[k]) \in StoredBefore(e)
                     /\ \A k \in (n + 2)..Len(ps) :
                           Name(k) \in DOMAIN resources =>
                               \/ Name(k) \in StoredBefore(e)
                               \/ \E h \in 1..(n + 1) : Name(h) = Name(k)
                ELSE /\ n = Len(ps)
                     /\ Len(x.mappings) = Len(ms)
    /\ next.step = "failed" => (exports # <<>> /\ exports[Len(exports)].err)

\* An export ended with the error of a grant that is not the last item of its
\* definition.
C26_Witness ==
    /\ exports # <<>>
    /\ LET x == exports[Len(exports)]
           info == lambdaAWSInfos[x.i]
       IN /\ x.err
          /\ Len(x.permissions) + 1 < Len(info.Permissions) + Len(info.EventSourceMappings)

\* C27: a definition without a named role and without an inline role
\* definition is none that NewLambda returns, and when the assembly meets
\* one it fails before the export of that definition has stored anything.
C27_NoRoleRejected ==
    /\ \A a \in RoleArguments :
          NewLambda(a).panic \/ NewLambda(a).role.RoleName # <<>>
                             \/ NewLambda(a).role.RoleDefinition # "nil"
    /\ \A i \in 1..Len(lambdaAWSInfos) :
          NilRole(lambdaAWSInfos[i]) =>
              /\ \A e \in 1..Len(exports) : exports[e].i # i
              /\ next.i <= i
              /\ next.i = i => next.step \in {"export", "panic"}

\* C28: when the assembly has ended, the document holds, for every mapping of
\* every definition, an event-source-mapping resource with the mapping's
\* source ARN, batch size and starting position that references the function
\* of the definition.
C28_MappingResourcePerMapping ==
    next.step = "done" =>
        \A e \in 1..Len(exports) :
            LET ms == lambdaAWSInfos[exports[e].i].EventSourceMappings
            IN \A k \in 1..Len(ms) :
                  \E n \in DOMAIN resources :
                      /\ resources[n].Type = "AWS::Lambda::EventSourceMapping"
                      /\ resources[n].Properties.EventSourceArn = ms[k].EventSourceArn
                      /\ resources[n].Properties.BatchSize = ms[k].BatchSize
                      /\ resources[n].Properties.StartingPosition = ms[k].StartingPosition
                      /\ resources[n].Properties.FunctionName =
                             [GetAtt |-> <<exports[e].function, <<"Arn">> >>]

\* C29: when the assembly has ended, the document holds, for every grant of
\* every definition, a Permission resource of the grant's principal, source
\* account and source ARN whose FunctionName references the function of the
\* definition.
C29_PermissionPerFunctionAndGrant ==
    next.step = "done" =>
        \A e \in 1..Len(exports) :
            LET ps == lambdaAWSInfos[exports[e].i].Permissions
            IN \A k \in 1..Len(ps) :
                  \E n \in C16_PermissionsFor(Triple(ps[k])) :
                      resources[n].Properties.FunctionName =
                          [GetAtt |-> <<exports[e].function, <<"Arn">> >>]

\* C30: the shared statement templates are as the package declares them, and
\* every policy synthesized so far reads as it read when its rolePolicy call
\* returned.
C30_TemplatesAndPoliciesUntouched ==
    /\ CommonIAMStatements = CommonIAMStatementsDeclared
    /\ \A a \in 1..Len(policies) :
          ReadPolicy(policies[a].statements, CommonIAMStatements) = policies[a].read

\* C31: once createRestApi has failed, no getResources, no call of the walk
\* and no createDeployment is issued, and the invocation responds FAILED with
\* the error of createRestApi.
C31_CreateFailureStopsInvocation ==
    data.ensureAPICreated # NoError =>
        /\ Calls("getResources") = {}
        /\ WalkCalls = {}
        /\ Calls("createDeployment") = {}
        /\ pc = "done" =>
              /\ Responded("FAILED")
              /\ sent[1].Error = data.ensureAPICreated

\* C32: an invocation of a Create or an Update that found at most one
\* container of the request's name and responded SUCCESS leaves at most one
\* such container.
C32_AtMostOneContainer ==
    (event.RequestType # "Delete" /\ event.ResourceProperties /\ Responded("SUCCESS")) =>
        remote.apis <= 1

\* C33: every non-root node the walk processes is processed under a parentId
\* that is not empty, with a createResource call of its own: its processing
\* starts with that call in flight.
C33_NonRootNeverAsRoot ==
    \A j \in jobs :
        j.node # 0 =>
            /\ j.parentId # 0
            /\ j.pc = "createResource" =>
                  Cardinality({ c \in Calls("createResource") :
                                   c.node = j.node /\ c.parentId # 0 }) = 1

\* C34: while a Delete request is handled, none of createRestApi,
\* getResources, createResource, putMethod, putMethodResponse, putIntegration,
\* putIntegrationResponse, addPermission and createDeployment is called: the
\* calls in flight are those of the deletion task, and the tasks that create
\* are not part of the invocation.
C34_DeleteCreatesNothing ==
    event.RequestType = "Delete" =>
        /\ \A c \in inflight : c.api \in {"getRestApis", "deleteRestApi", "removePermission"}
        /\ \A t \in Tasks \ {"ensureDeleted"} : taskState[t] = "absent"
        /\ deployCalls = 0
        /\ jobs = {} /\ tasksQ = <<>>

\* A Delete has responded: no container is left and the revokes of the
\* previous tree were attempted.
C34_Witness ==
    /\ event.RequestType = "Delete"
    /\ Responded("SUCCESS")
    /\ revokeLog.lookup = "ok"
    /\ revokeLog.attempted # <<>>
    /\ remote.apis = 0

\* The five stages of the pipeline of a method.
C35_Stages ==
    {"putMethod", "putMethodResponse", "putIntegration", "putIntegrationResponse",
     "addPermission"}

\* C35: the processing of a node never ends with an error on a method whose
\* five stages have all succeeded (the error a node ends with is the one the
\* walk, and with it the invocation, fails with).
C35_DescribeFailureIgnored ==
    \A j \in jobs :
        (j.pc = "complete" /\ C35_Stages \subseteq j.done) => j.err = NoError

\* The definitions whose role is an inline definition and whose rolePolicy
\* call has been made.
C36_Synthesized ==
    { i \in 1..Len(lambdaAWSInfos) :
        /\ lambdaAWSInfos[i].role.RoleName = <<>>
        /\ lambdaAWSInfos[i].role.RoleDefinition # "nil"
        /\ \/ next.i > i
           \/ next.i = i /\ next.step # "rolePolicy" }

\* C36: every rolePolicy call returns a policy, whatever the number of
\* segments of the ARNs of the event-source mappings; a mapping whose ARN has
\* fewer than three segments adds no statement to it.
C36_PolicyForEveryArn ==
    \A i \in C36_Synthesized :
        \E a \in 1..Len(policies) :
            /\ policies[a].i = i
            /\ \A n \in 1..Len(policies[a].read) :
                  \A m \in 1..Len(lambdaAWSInfos[i].EventSourceMappings) :
                      LET arn == lambdaAWSInfos[i].EventSourceMappings[m].EventSourceArn
                      IN Len(Split(arn)) < 3 => policies[a].read[n].Resource # arn

\* C37: two exported grants whose (principal, source account, source ARN)
\* triples differ are stored under different Permission logical ids, also
\* when the fields of the triples written one after another read the same.
C37_PermissionIdInjective ==
    \A g, h \in ExportedGrants :
        Triple(g.perm) # Triple(h.perm) => g.name # h.name

====
